---- MODULE Spec2Model ----
(***************************************************************************)
(* Model of src/index.js: the one-shot ESLint check action.  run() opens   *)
(* a check run, queries the pull request's files, filters them by          *)
(* extension, lints them, turns the engine's report into a check-run       *)
(* report and completes the check run.  Strings whose contents matter      *)
(* (paths, extensions) are sequences of one-character strings.             *)
(***************************************************************************)
EXTENDS Integers, Sequences, FiniteSets, TLC

VARIABLES
  pc,           \* position of run(): the await or statement it is at
  id,           \* const id of run() (line 146): <<>> until createCheck returned
  checkRun,     \* the remote check run: <<>> or <<[status, conclusion, output]>>
  calls,        \* the requests sent to the check-runs API, in order
  queries,      \* number of pull-request queries sent
  files,        \* prInfo.repository.pullRequest.files.nodes (line 182)
  filesToLint,  \* line 191
  notFine,      \* 'Something not fine' was logged (line 204)
  warned,       \* the 'nothing to lint' warning was logged (line 195)
  engine,       \* what cli.executeOnFiles returned: <<>> or <<report>>
  lintCalls,    \* number of invocations of eslint()
  report,       \* what eslint() returned: <<>> or <<[conclusion, output]>>
  err,          \* the error caught / the rejection of run(): <<>> or <<name>>
  raised,       \* every error raised so far, in order
  logged,       \* the errors exitWithError logged
  exitCode      \* the process's exit code: <<>> while it runs

vars == <<pc, id, checkRun, calls, queries, files, filesToLint, notFine, warned,
          engine, lintCalls, report, err, raised, logged, exitCode>>

----------------------------------------------------------------------------
\* Bounds of the model.

MaxFiles == 2   \* files in the pull request
MaxMsgs == 1    \* diagnostics in one engine report

\* Exit codes the program passes to process.exit.
ExitError == 1
ExitLintFailure == 78

Max(S) == CHOOSE x \in S : \A y \in S : y <= x

----------------------------------------------------------------------------
\* Strings.

GITHUB_WORKSPACE == <<"/", "w">>

\* Roots under which the engine may report absolute file paths: the workspace
\* itself, a sibling whose name the workspace is a prefix of, an unrelated one.
EngineRoots == { GITHUB_WORKSPACE, <<"/", "w", "x">>, <<"/", "o", "p", "t">> }

\* Paths a pull request may touch.
PathPool ==
  { <<"a", ".", "j", "s">>,
    <<"b", ".", "p", "y">>,
    <<"c", ".", "t", "s">>,
    <<".", "j", "s">>,
    <<"d", "/", "e", ".", "j", "s", "x">>,
    <<"f", ".", "t", "s", "x">>,
    <<"g", ".", "m", "j", "s">>,
    <<"h", ".", "j", "s", "/", "R">> }

\* path.extname (posix): the text from the last '.' of the last path segment,
\* '' when there is none, when the segment starts with it, or for '..'.
extname(path) ==
  LET nonSlash == { i \in 1..Len(path) : path[i] # "/" } IN
  IF nonSlash = {} THEN <<>>
  ELSE
    LET end == Max(nonSlash)
        slashes == { i \in 1..end : path[i] = "/" }
        startPart == IF slashes = {} THEN 1 ELSE Max(slashes) + 1
        dots == { i \in startPart..end : path[i] = "." }
    IN
    IF dots = {} THEN <<>>
    ELSE
      LET startDot == Max(dots) IN
      IF startDot = startPart THEN <<>>
      ELSE IF startDot = end /\ startDot = startPart + 1 /\ path[startPart] = "."
        THEN <<>>
      ELSE SubSeq(path, startDot, end)

\* String.prototype.substring(start)
substring(s, start) == SubSeq(s, start + 1, Len(s))

EXTENSIONS_TO_LINT ==
  { <<".", "m", "j", "s">>,
    <<".", "j", "s">>,
    <<".", "t", "s">>,
    <<".", "j", "s", "x">>,
    <<".", "t", "s", "x">> }

\* The filter with the engine's extension list (line 70) in place of the set.
FilterFiles_engineExtensions(nodes) ==
  LET MapP[k \in 0..Len(nodes)] ==
        IF k = 0 THEN <<>>
        ELSE IF extname(nodes[k].path) \in
                  { <<".", "j", "s">>, <<".", "j", "s", "x">>, <<".", "t", "s", "x">> }
          THEN Append(MapP[k - 1], nodes[k].path)
        ELSE MapP[k - 1]
  IN MapP[Len(nodes)]

RECURSIVE MapPath(_)
MapPath(nodes) ==
  IF nodes = <<>> THEN <<>> ELSE <<Head(nodes).path>> \o MapPath(Tail(nodes))

\* files.filter(...).map(file => file.path)
FilterFiles(nodes) ==
  MapPath(SelectSeq(nodes, LAMBDA file : extname(file.path) \in EXTENSIONS_TO_LINT))

\* isFileOk: existsSync(path)
isFileOk(path, disk) == path \in disk

----------------------------------------------------------------------------
\* The linting engine and the report built from its output.

checkName == "ESLint check"

Ids == {41, 42}                \* ids the platform may give a new check run
Lines == {7}                   \* lines a diagnostic may be anchored to
Severities == {0, 1, 2}        \* a diagnostic's severity

Messages ==
  { [line |-> l, severity |-> s, ruleId |-> "semi", message |-> "Missing semicolon."] :
      l \in Lines, s \in Severities }

MsgSeqs(k) == UNION { [1..n -> Messages] : n \in 0..k }

Count(seq, severity) == Cardinality({ i \in 1..Len(seq) : seq[i].severity = severity })

RECURSIVE Sum(_)
Sum(seq) == IF seq = <<>> THEN 0 ELSE Head(seq) + Sum(Tail(seq))

\* The result lists cli.executeOnFiles may return for fs: one result per file
\* the engine processed, in the order given, its filePath absolute under root,
\* with at most budget diagnostics in all.
RECURSIVE ResultsFor(_, _, _)
ResultsFor(fs, root, budget) ==
  IF fs = <<>> THEN { <<>> }
  ELSE
    ResultsFor(Tail(fs), root, budget)
    \cup UNION { { <<[filePath |-> root \o <<"/">> \o Head(fs), messages |-> ms]>> \o r :
                     r \in ResultsFor(Tail(fs), root, budget - Len(ms)) } :
                 ms \in MsgSeqs(budget) }

\* The report of the engine: the results and the counts summed over them.
EngineReport(results) ==
  [ results |-> results,
    errorCount |->
      Sum([i \in 1..Len(results) |-> Count(results[i].messages, 2)]),
    warningCount |->
      Sum([i \in 1..Len(results) |-> Count(results[i].messages, 1)]) ]

EngineReports(fs) ==
  { EngineReport(rs) : rs \in UNION { ResultsFor(fs, root, MaxMsgs) : root \in EngineRoots } }

levels == <<"", "warning", "failure">>

\* levels[severity], the array being indexed from 0
annotationLevel(severity) == levels[severity + 1]

\* filePath.substring(GITHUB_WORKSPACE.length + 1)
rebase(filePath) == substring(filePath, Len(GITHUB_WORKSPACE) + 1)

annotation(path, msg) ==
  [ path |-> path,
    start_line |-> msg.line,
    end_line |-> msg.line,
    annotation_level |-> annotationLevel(msg.severity),
    message |-> <<"[", msg.ruleId, "] ", msg.message>> ]

RECURSIVE annotations(_)
annotations(results) ==
  IF results = <<>> THEN <<>>
  ELSE
    LET result == Head(results)
        path == rebase(result.filePath)
    IN [i \in 1..Len(result.messages) |-> annotation(path, result.messages[i])]
       \o annotations(Tail(results))

\* The conclusion failing on warnings too.
conclusionOf_anyProblem(errorCount, warningCount) ==
  IF errorCount + warningCount > 0 THEN "failure" ELSE "success"

conclusionOf(errorCount, warningCount) ==
  IF errorCount > 0 THEN "failure" ELSE "success"

\* What eslint(files) returns, given what the engine reported.
eslint(rep) ==
  [ conclusion |-> conclusionOf(rep.errorCount, rep.warningCount),
    output |->
      [ title |-> checkName,
        summary |-> <<rep.errorCount, " error(s), ", rep.warningCount, " warning(s) found">>,
        annotations |-> annotations(rep.results) ] ]

----------------------------------------------------------------------------
\* The check-runs API.

\* The request createCheck sends.
createCheckBody ==
  [ op |-> "CreateCheckRun", id |-> <<>>, status |-> "in_progress",
    conclusion |-> "", output |-> <<>> ]

\* The request updateCheck(id, conclusion, output) sends; output is <<>> when
\* the argument is not passed.
updateCheckBody(i, conclusion, output) ==
  [ op |-> "UpdateCheckRun", id |-> i, status |-> "completed",
    conclusion |-> conclusion, output |-> output ]

\* The catch block's call leaving the conclusion out.
closeOnError_noConclusion(i) == updateCheckBody(i, "", <<>>)

\* The call of the catch block: updateCheck(id, 'failure')
closeOnError(i) == updateCheckBody(i, "failure", <<>>)

Sent(body, ok) == Append(calls, [body |-> body, ok |-> ok])

\* The remote check run after a request the platform accepted.
Remote(i, body) ==
  <<[ id |-> i, status |-> body.status, conclusion |-> body.conclusion,
      output |-> body.output ]>>

\* The emptiness test off by one.
nothingToLint_never(ftl) == Len(ftl) < 0

\* if (filesToLint.length < 1)
nothingToLint(ftl) == Len(ftl) < 1

\* The exit test inverted.
exitAfterUpdate_inverted(conclusion) ==
  IF conclusion = "success" THEN <<ExitLintFailure>> ELSE <<0>>

\* The exit code after the completing update: process.exit(78) on a failure
\* conclusion, else run() returns and the process ends with 0.
exitAfterUpdate(conclusion) ==
  IF conclusion = "failure" THEN <<ExitLintFailure>> ELSE <<0>>

\* The statements outside any try block: a throw rejects run().
onThrow_noTry == "rejected"

\* Where control goes when a statement of the try block throws.
onThrow == "catch"

----------------------------------------------------------------------------
\* The pull request's file nodes: distinct paths, at most MaxFiles of them.

FileLists ==
  { fl \in UNION { [1..n -> [path : PathPool]] : n \in 0..MaxFiles } :
      \A i, j \in 1..Len(fl) : fl[i] = fl[j] => i = j }

Range(seq) == { seq[i] : i \in 1..Len(seq) }

----------------------------------------------------------------------------
\* exitWithError calling process.exit() without a code.
exitWithError_noCode(e) ==
  /\ logged' = Append(logged, e)
  /\ exitCode' = <<0>>
  /\ pc' = "exited"

\* exitWithError(e): log the error, process.exit(1).
exitWithError(e) ==
  /\ logged' = Append(logged, e)
  /\ exitCode' = <<ExitError>>
  /\ pc' = "exited"

\* An error e is thrown (or a promise awaited is rejected with it).
Throw(e) ==
  /\ err' = <<e>>
  /\ raised' = Append(raised, e)

NoThrow == UNCHANGED <<err, raised>>

Init ==
  /\ pc = "create"
  /\ id = <<>>
  /\ checkRun = <<>>
  /\ calls = <<>>
  /\ queries = 0
  /\ files = <<>>
  /\ filesToLint = <<>>
  /\ notFine = FALSE
  /\ warned = FALSE
  /\ engine = <<>>
  /\ lintCalls = 0
  /\ report = <<>>
  /\ err = <<>>
  /\ raised = <<>>
  /\ logged = <<>>
  /\ exitCode = <<>>

\* const id = await createCheck(): outside the try block, so a failure
\* rejects run().
CreateCheck ==
  /\ pc = "create"
  /\ \/ \E newId \in Ids :
          /\ calls' = Sent(createCheckBody, TRUE)
          /\ checkRun' = Remote(<<newId>>, createCheckBody)
          /\ id' = <<newId>>
          /\ pc' = "query"
          /\ NoThrow
     \/ /\ calls' = Sent(createCheckBody, FALSE)
        /\ Throw("CreateError")
        /\ pc' = "rejected"
        /\ UNCHANGED <<checkRun, id>>
  /\ UNCHANGED <<queries, files, filesToLint, notFine, warned, engine, lintCalls,
                 report, logged, exitCode>>

\* await octokit.graphql(...) and the reading of its result (lines 149-183).
QueryPR ==
  /\ pc = "query"
  /\ queries' = queries + 1
  /\ \/ /\ Throw("QueryError")      \* the query is rejected
        /\ pc' = onThrow
        /\ files' = files
     \/ /\ Throw("TypeError")           \* the result lacks the nodes read
        /\ pc' = onThrow
        /\ files' = files
     \/ \E nodes \in FileLists :
          /\ files' = nodes
          /\ pc' = "filter"
          /\ NoThrow
  /\ UNCHANGED <<id, checkRun, calls, filesToLint, notFine, warned, engine,
                 lintCalls, report, logged, exitCode>>

\* Lines 184-201: the filter, and the return when nothing is left; run()
\* then resolves and the process ends with exit code 0.
Filter ==
  /\ pc = "filter"
  /\ filesToLint' = FilterFiles(files)
  /\ IF nothingToLint(filesToLint')
       THEN /\ warned' = TRUE
            /\ pc' = "exited"
            /\ exitCode' = <<0>>
       ELSE /\ pc' = "exists"
            /\ UNCHANGED <<warned, exitCode>>
  /\ UNCHANGED <<id, checkRun, calls, queries, files, notFine, engine, lintCalls,
                 report, err, raised, logged>>

\* Lines 203-205: the existence check only logs.
CheckFiles ==
  /\ pc = "exists"
  /\ \E disk \in SUBSET Range(filesToLint) :
       notFine' = ~(\A i \in 1..Len(filesToLint) : isFileOk(filesToLint[i], disk))
  /\ pc' = "lint"
  /\ UNCHANGED <<id, checkRun, calls, queries, files, filesToLint, warned, engine,
                 lintCalls, report, err, raised, logged, exitCode>>

\* Line 207: eslint(filesToLint); the engine may throw.
Lint ==
  /\ pc = "lint"
  /\ lintCalls' = lintCalls + 1
  /\ \/ /\ Throw("EngineError")
        /\ pc' = onThrow
        /\ UNCHANGED <<engine, report>>
     \/ \E rep \in EngineReports(filesToLint) :
          /\ engine' = <<rep>>
          /\ report' = <<eslint(rep)>>
          /\ pc' = "update"
          /\ NoThrow
  /\ UNCHANGED <<id, checkRun, calls, queries, files, filesToLint, notFine, warned,
                 logged, exitCode>>

\* Lines 210-213: await updateCheck(id, conclusion, output), then the exit.
UpdateCheck ==
  /\ pc = "update"
  /\ LET body == updateCheckBody(id, report[1].conclusion, <<report[1].output>>) IN
     \/ /\ calls' = Sent(body, TRUE)
        /\ checkRun' = Remote(id, body)
        /\ exitCode' = exitAfterUpdate(report[1].conclusion)
        /\ pc' = "exited"
        /\ NoThrow
     \/ /\ calls' = Sent(body, FALSE)
        /\ Throw("UpdateError")
        /\ pc' = onThrow
        /\ UNCHANGED <<checkRun, exitCode>>
  /\ UNCHANGED <<id, queries, files, filesToLint, notFine, warned, engine, lintCalls,
                 report, logged>>

\* Lines 214-217: await updateCheck(id, 'failure'); exitWithError(err).  A
\* failure of the update rejects run().
Catch ==
  /\ pc = "catch"
  /\ \/ /\ calls' = Sent(closeOnError(id), TRUE)
        /\ checkRun' = Remote(id, closeOnError(id))
        /\ exitWithError(err[1])
        /\ NoThrow
     \/ /\ calls' = Sent(closeOnError(id), FALSE)
        /\ Throw("CloseError")
        /\ pc' = "rejected"
        /\ UNCHANGED <<checkRun, logged, exitCode>>
  /\ UNCHANGED <<id, queries, files, filesToLint, notFine, warned, engine, lintCalls,
                 report>>

\* Lines 220-221: run().catch(exitWithError)
TopCatch ==
  /\ pc = "rejected"
  /\ exitWithError(err[1])
  /\ UNCHANGED <<id, checkRun, calls, queries, files, filesToLint, notFine, warned,
                 engine, lintCalls, report, err, raised>>

Next ==
  \/ CreateCheck
  \/ QueryPR
  \/ Filter
  \/ CheckFiles
  \/ Lint
  \/ UpdateCheck
  \/ Catch
  \/ TopCatch

Spec == Init /\ [][Next]_vars

----------------------------------------------------------------------------
\* Vocabulary of the properties.

Opened == id # <<>>
Exited == pc = "exited"
Errors == Range(raised)

CreateCalls == { k \in 1..Len(calls) : calls[k].body.op = "CreateCheckRun" }
UpdateCalls == { k \in 1..Len(calls) : calls[k].body.op = "UpdateCheckRun" }

\* close(id, null): status 'completed', conclusion 'failure', no output.
IsCloseNull(k) ==
  /\ calls[k].body.op = "UpdateCheckRun"
  /\ calls[k].body.id = id
  /\ calls[k].body.status = "completed"
  /\ calls[k].body.conclusion = "failure"
  /\ calls[k].body.output = <<>>

\* The completing update that carries a report.
IsCloseReport(k) ==
  /\ calls[k].body.op = "UpdateCheckRun"
  /\ calls[k].body.output # <<>>

\* The filter has run on the files the query returned.
Filtered ==
  /\ pc \notin {"create", "query", "filter"}
  /\ Errors \cap {"CreateError", "QueryError", "TypeError"} = {}

\* The paths of the pool whose extension is in the lintable set.
LintablePaths == { p \in PathPool : extname(p) \in EXTENSIONS_TO_LINT }
Lintable(path) == path \in LintablePaths
LintableAt == { i \in 1..Len(files) : Lintable(files[i].path) }

HasPrefix(s, prefix) ==
  /\ Len(s) >= Len(prefix)
  /\ SubSeq(s, 1, Len(prefix)) = prefix

WorkspacePrefix == GITHUB_WORKSPACE \o <<"/">>

----------------------------------------------------------------------------
\* C1: once an error has been raised after open() returned an id, the process
\* does not terminate before UpdateCheckRun was called with that id, status
\* 'completed', conclusion 'failure' and no output, and it terminates with
\* exit code 1; while the close has not been called it has not terminated.
C1_CloseOnErrorThenExit1 ==
  (Opened /\ raised # <<>>) =>
    /\ exitCode \in {<<>>, <<ExitError>>}
    /\ Exited => /\ exitCode = <<ExitError>>
                 /\ \E k \in 1..Len(calls) : IsCloseNull(k)
    /\ (~ \E k \in 1..Len(calls) : IsCloseNull(k)) => pc = "catch" /\ exitCode = <<>>

C1_Witness ==
  /\ Exited
  /\ Opened
  /\ raised = <<"EngineError">>
  /\ \E k \in 1..Len(calls) : IsCloseNull(k) /\ calls[k].ok

\* C2 (as stated): when the pull-request query fails, the process exits 1 and
\* neither CreateCheckRun nor UpdateCheckRun was ever invoked.
C2_Original ==
  (Exited /\ "QueryError" \in Errors) =>
    /\ exitCode = <<ExitError>>
    /\ CreateCalls = {}
    /\ UpdateCalls = {}

\* C2 (amended): when the pull-request query fails, open() has already
\* returned: CreateCheckRun was invoked once, before the query, and accepted;
\* the run then calls UpdateCheckRun once with the id, 'completed', 'failure'
\* and no output, and the process exits with code 1.
C2_QueryFailsAfterOpen ==
  ("QueryError" \in Errors) =>
    /\ Opened
    /\ CreateCalls = {1} /\ calls[1].ok
    /\ checkRun # <<>>
    /\ lintCalls = 0
    /\ exitCode \in {<<>>, <<ExitError>>}
    /\ Exited => /\ exitCode = <<ExitError>>
                 /\ UpdateCalls = {2}
                 /\ IsCloseNull(2)

C2_Witness ==
  /\ Exited
  /\ raised = <<"QueryError">>
  /\ checkRun # <<>> /\ checkRun[1].status = "completed"

\* C3: a terminated process has exit code 1 exactly when an error was raised,
\* 78 exactly when none was and the report's conclusion is 'failure', 0
\* exactly when none was and either nothing was to lint or the report's
\* conclusion is 'success' and the check run was completed; a running process
\* has no exit code.
C3_ExitCodes ==
  /\ ~Exited => exitCode = <<>>
  /\ Exited =>
       /\ exitCode \in {<<0>>, <<ExitError>>, <<ExitLintFailure>>}
       /\ exitCode = <<ExitError>> <=> raised # <<>>
       /\ exitCode = <<ExitLintFailure>> <=>
            (raised = <<>> /\ report # <<>> /\ report[1].conclusion = "failure")
       /\ exitCode = <<0>> <=>
            /\ raised = <<>>
            /\ \/ (report = <<>> /\ LintableAt = {})
               \/ /\ report # <<>>
                  /\ report[1].conclusion = "success"
                  /\ checkRun[1].status = "completed"
                  /\ checkRun[1].conclusion = "success"

C3_Witness ==
  /\ Exited
  /\ exitCode = <<ExitLintFailure>>
  /\ report # <<>> /\ report[1].conclusion = "failure"
  /\ checkRun[1].status = "completed"

\* C4: when no changed file has a lintable extension, once the filter has run
\* the engine was not invoked, no UpdateCheckRun was sent, the check run is
\* still 'in_progress', and the process has ended with exit code 0.
C4_NothingToLint ==
  (Filtered /\ LintableAt = {}) =>
    /\ lintCalls = 0
    /\ engine = <<>> /\ report = <<>>
    /\ UpdateCalls = {}
    /\ checkRun # <<>> /\ checkRun[1].status = "in_progress"
    /\ Exited
    /\ exitCode = <<0>>

C4_Witness ==
  /\ Filtered
  /\ Len(files) > 0
  /\ LintableAt = {}
  /\ warned

\* C5: the report's conclusion is 'failure' when the engine's errorCount is
\* positive and 'success' otherwise, whatever the warningCount, and the
\* completing update carries that conclusion and the report's output.
C5_ConclusionIffErrors ==
  report # <<>> =>
    LET expected == IF engine[1].errorCount > 0 THEN "failure" ELSE "success" IN
    /\ report[1].conclusion = expected
    /\ \A k \in 1..Len(calls) :
         IsCloseReport(k) => /\ calls[k].body.conclusion = expected
                             /\ calls[k].body.output = <<report[1].output>>
                             /\ calls[k].body.id = id

C5_Witness ==
  /\ report # <<>>
  /\ engine[1].errorCount = 0
  /\ engine[1].warningCount > 0
  /\ \E k \in 1..Len(calls) : IsCloseReport(k) /\ calls[k].ok

\* C6: once the filter has run, filesToLint is the subsequence of the changed
\* paths whose extension is lintable: its k-th element is the path at the k-th
\* lintable position of the input, files missing on disk included.
C6_FilterExactSubsequence ==
  Filtered =>
    LET kept == LintableAt IN
    /\ Len(filesToLint) = Cardinality(kept)
    /\ \A i \in kept :
         filesToLint[Cardinality({ j \in kept : j <= i })] = files[i].path

C6_Witness ==
  /\ Filtered
  /\ notFine
  /\ Len(filesToLint) >= 1
  /\ Len(files) > Len(filesToLint)
  /\ lintCalls = 1

\* C7: every annotation of a report has the level 'warning' for a diagnostic
\* of severity 1 and 'failure' for one of severity 2, and no annotation has a
\* level outside {warning, failure}.
C7_LevelsValid ==
  report # <<>> =>
    LET anns == report[1].output.annotations
        diags == UNION { Range(engine[1].results[i].messages) :
                           i \in 1..Len(engine[1].results) }
    IN /\ \A a \in Range(anns) : a.annotation_level \in {"warning", "failure"}
       /\ \A d \in diags : d.severity \in {1, 2} =>
            \E a \in Range(anns) :
              /\ a.start_line = d.line
              /\ a.annotation_level = IF d.severity = 1 THEN "warning" ELSE "failure"

\* C8: a report exists only if every result with diagnostics had a filePath
\* under the workspace root followed by a separator (otherwise a
\* PreconditionError was raised), and then the annotation path is the filePath
\* with exactly that prefix removed.
C8_RebaseGuarded ==
  report # <<>> =>
    /\ \A i \in 1..Len(engine[1].results) :
         engine[1].results[i].messages # <<>> =>
           HasPrefix(engine[1].results[i].filePath, WorkspacePrefix)
    /\ \A a \in Range(report[1].output.annotations) :
         \E i \in 1..Len(engine[1].results) :
           engine[1].results[i].filePath = WorkspacePrefix \o a.path

\* C9: CreateCheckRun is invoked at most once and before any linting work,
\* UpdateCheckRun at most once and only with the id open() returned; a failed
\* completing update is followed by no second UpdateCheckRun.
C9_OpenOnceCloseAtMostOnce ==
  /\ Cardinality(CreateCalls) <= 1
  /\ pc # "create" => CreateCalls = {1}
  /\ lintCalls > 0 => (CreateCalls = {1} /\ calls[1].ok)
  /\ Cardinality(UpdateCalls) <= 1
  /\ \A k \in UpdateCalls : Opened /\ calls[k].body.id = id /\ k > 1

\* C10: when close(id, null) has failed, it was the last request sent (no
\* retry), run() is rejected and the top-level handler runs next, and the
\* process ends with exit code 1 having logged the closing call's failure.
C10_CloseFailureExits1 ==
  (\E k \in 1..Len(calls) : IsCloseNull(k) /\ ~calls[k].ok) =>
    /\ IsCloseNull(Len(calls)) /\ ~calls[Len(calls)].ok
    /\ Cardinality({ k \in 1..Len(calls) : IsCloseNull(k) }) = 1
    /\ pc \in {"rejected", "exited"}
    /\ pc = "rejected" => exitCode = <<>> /\ ENABLED TopCatch
    /\ Exited => exitCode = <<ExitError>> /\ logged = <<"CloseError">>

C10_Witness ==
  /\ Exited
  /\ Opened
  /\ raised = <<"EngineError", "CloseError">>
  /\ checkRun[1].status = "in_progress"

====
